---- MODULE Spec2Model ----
(***************************************************************************)
(* CaptionMaker: the sequence decoder of ImageCaptionModel (greedy and     *)
(* beam search, src/model.py) and the scene classifier of                  *)
(* SmartCaptionGenerator (src/caption_generator.py, src/config.py).        *)
(*                                                                         *)
(* Numbers.  Probabilities are sixteenths (16 = 1.0, 8 = 0.5, ...,         *)
(* 0 = 0.0) and a score is a sum of base-2 logarithms in thousandths of a  *)
(* bit.  Two sums of at most seven such terms are equal when the exact     *)
(* scores are, and otherwise differ as the exact scores do.  Candidates    *)
(* whose exact scores tie are ordered by floating-point rounding in the    *)
(* program, and the model leaves their order open.                         *)
(*                                                                         *)
(* Text.  A string is the sequence of its tokens, a token being a word or  *)
(* one blank " ".                                                          *)
(***************************************************************************)
EXTENDS Integers, Sequences, FiniteSets, TLC

VARIABLES
    model,          \* self.model: [present, dists, stepfn]; stepfn is what predict has answered so far
    tokenizer,      \* self.tokenizer: [present, word_index]
    max_length,     \* self.max_length
    beam_width,     \* the beam_width argument
    todo,           \* the calls the caller still makes on this object, in order
    pc,             \* position in the running call
    in_text,        \* generate_caption_simple: in_text
    g_iter,         \* generate_caption_simple: iterations of the for loop begun
    sequences,      \* generate_caption_beam_search: sequences (the frontier)
    all_candidates, \* generate_caption_beam_search: all_candidates
    b_iter,         \* generate_caption_beam_search: iterations of the outer loop completed
    b_idx,          \* generate_caption_beam_search: position of the inner loop in sequences
    calls,          \* predict invocations of the latest call of each method
    result_simple,  \* what generate_caption_simple returned
    result_beam,    \* what generate_caption_beam_search returned
    best_sequence,  \* generate_caption_beam_search: best_sequence
    returned,       \* the calls that have returned a value
    raised,         \* the exception that ended the run, or "none"
    encoder_model,  \* SmartCaptionGenerator: self.encoder_model is loaded
    inception_full, \* SmartCaptionGenerator: self.inception_full is loaded
    scene_pc,       \* "new", "ready" once constructed, "done" once a method was called
    method,         \* the method called
    labels,         \* its predictions argument, or what the classifier decoded for it
    confidences,    \* its confidence_scores argument
    final_scores,   \* category_scores at the end of the call, in the order of the categories
    outcome,        \* what the call ended with
    threads,        \* the threads that call the objects: the call of each, its position, its value
    frames,         \* the local variables of the calls in flight, by frame
    context,        \* _extract_contextual_info: the context it returned
    tone,           \* generate_multiple_captions: the tone argument
    num_captions,   \* generate_multiple_captions: the num_captions argument
    classes,        \* generate_multiple_captions: top_classes of the analysis
    captions,       \* generate_multiple_captions: captions
    unique_captions, \* generate_multiple_captions: unique_captions, a list up to its order
    multi_pc,       \* generate_multiple_captions: position in the call
    multi_result    \* generate_multiple_captions: the list returned, up to its order

decode_vars == <<model, tokenizer, max_length, beam_width, todo, pc, in_text, g_iter,
                 sequences, all_candidates, b_iter, b_idx, calls, result_simple,
                 result_beam, best_sequence, returned, raised>>

scene_vars == <<encoder_model, inception_full, scene_pc, method, labels,
                confidences, final_scores, outcome>>

thread_vars == <<threads, frames>>

caption_vars == <<context, tone, num_captions, classes, captions, unique_captions,
                  multi_pc, multi_result>>

vars == <<decode_vars, scene_vars, thread_vars, caption_vars>>

-----------------------------------------------------------------------------
(* Bounds of the model *)

\* max_length is at most MaxLen, and at most MaxLongLen for the stepping
\* functions that answer from a set smaller than Dists.
MaxLen == 3
MaxLongLen == 5
MaxBeam == 2
\* The longest list of predictions and of confidences.
MaxPreds == 3
\* The lowest rank at which a long list of predictions holds a keyword.
MaxRank == 11
\* The threads that call the objects at the same time.
MaxThreads == 2

-----------------------------------------------------------------------------
(* Vocabulary *)

NoWord == "<None>"
Blank == " "

\* A fitted tokenizer's word_index: ids from 1, id 0 is the padding and has no word.
WordIndexFull == ("startseq" :> 1) @@ ("endseq" :> 2) @@ ("a" :> 3) @@ ("dog" :> 4)
\* A word_index in which id 4 has no word.
WordIndexGap == ("startseq" :> 1) @@ ("endseq" :> 2) @@ ("a" :> 3)

WordIndexes == {WordIndexFull, WordIndexGap}

\* vocab_size = len(word_index) + 1
VocabSize(wi) == Cardinality(DOMAIN wi) + 1

\* dict.get(word, default)
WordIndexGet(wi, word, default) == IF word \in DOMAIN wi THEN wi[word] ELSE default

WordForId(integer, wi) ==
    IF \E w \in DOMAIN wi : wi[w] = integer
    THEN CHOOSE w \in DOMAIN wi : wi[w] = integer
    ELSE NoWord

\* Tokenizer.texts_to_sequences: the ids of the words of the text that are in word_index
RECURSIVE TextsToSequences(_, _)
TextsToSequences(text, wi) ==
    IF text = <<>> THEN <<>>
    ELSE LET w == Head(text)
             rest == TextsToSequences(Tail(text), wi)
         IN IF w # Blank /\ w \in DOMAIN wi THEN <<wi[w]>> \o rest ELSE rest

-----------------------------------------------------------------------------
(* Padding and the stepping function *)

Zeros(n) == [i \in 1..n |-> 0]

\* pad_sequences([sequence], maxlen): padding='pre', truncating='pre'
PadPre(sequence, maxlen) ==
    IF Len(sequence) >= maxlen
    THEN SubSeq(sequence, Len(sequence) - maxlen + 1, Len(sequence))
    ELSE Zeros(maxlen - Len(sequence)) \o sequence

\* seq + [0] * (max_length - len(seq))
PadPost(seq, maxlen) ==
    IF Len(seq) >= maxlen THEN seq ELSE seq \o Zeros(maxlen - Len(seq))

NonZero(x) == x # 0

\* The decoder embeds its text input with mask_zero=True, so the padding does
\* not reach it.  The stepping functions of the model answer by the number of
\* non-padding ids of their input.
StepKey(padded) == Len(SelectSeq(padded, NonZero))

\* The distributions predict may answer, indexed by id + 1, in sixteenths.
OneHotEnd    == <<0, 0, 16, 0, 0>>
FavourA      == <<1, 2, 4, 6, 3>>
FavourDog    == <<1, 2, 3, 4, 6>>
FavourEnd    == <<1, 2, 6, 4, 3>>
TieADog      == <<1, 1, 2, 6, 6>>
StartAgain   == <<1, 6, 3, 4, 2>>
PadFirst     == <<6, 1, 4, 3, 2>>
\* A distribution shorter than the vocabulary.
ShortDist    == <<2, 3, 4, 6>>

Dists == {FavourA, FavourDog, FavourEnd, TieADog, StartAgain, PadFirst, ShortDist}

\* The stepping functions of the model: the one that always answers one-hot on
\* the end id, those that favour one word or the end at each step, and those
\* that answer from Dists.
FavourDists == {FavourA, FavourDog, FavourEnd}
DistSets == {{OneHotEnd}, FavourDists, Dists}

\* log(p + 1e-8), in thousandths of a bit
LogProb(q) ==
    CASE q = 16 -> 0 [] q = 8 -> -1000 [] q = 6 -> -1415 [] q = 4 -> -2000
      [] q = 3 -> -2415 [] q = 2 -> -3000 [] q = 1 -> -4000 [] OTHER -> -26575

\* An argmax that answers the last index of the maximum.
ArgMaxLast(prediction) ==
    CHOOSE i \in 0..(Len(prediction) - 1) :
        \A j \in 0..(Len(prediction) - 1) :
            /\ prediction[j + 1] <= prediction[i + 1]
            /\ (prediction[j + 1] = prediction[i + 1] => j <= i)

\* np.argmax: the first index of the maximum
ArgMax(prediction) ==
    CHOOSE i \in 0..(Len(prediction) - 1) :
        \A j \in 0..(Len(prediction) - 1) :
            /\ prediction[j + 1] <= prediction[i + 1]
            /\ (prediction[j + 1] = prediction[i + 1] => i <= j)

\* np.argsort(predictions)[-k:]: the last k indices of an ascending sort, whose
\* order among equal values the sort does not fix.
RECURSIVE TopOf(_, _, _)
TopOf(predictions, ids, k) ==
    IF k = 0 \/ ids = {} THEN {<<>>}
    ELSE UNION { { r \o <<i>> : r \in TopOf(predictions, ids \ {i}, k - 1) } :
                 i \in { i \in ids : \A j \in ids : predictions[j + 1] <= predictions[i + 1] } }

ArgSortTop(predictions, k) == TopOf(predictions, 0..(Len(predictions) - 1), k)

-----------------------------------------------------------------------------
(* Text *)

\* ' '.join(words)
RECURSIVE Join(_)
Join(words) ==
    IF words = <<>> THEN <<>>
    ELSE IF Len(words) = 1 THEN words
    ELSE <<Head(words), Blank>> \o Join(Tail(words))

\* str.replace(old, ''): every occurrence of the word old becomes the empty string
Replace(text, old) == SelectSeq(text, LAMBDA t : t # old)

\* str.strip(): without the leading and the trailing blanks
RECURSIVE LStrip(_)
LStrip(text) ==
    IF text # <<>> /\ Head(text) = Blank THEN LStrip(Tail(text)) ELSE text

RECURSIVE RStrip(_)
RStrip(text) ==
    IF text # <<>> /\ text[Len(text)] = Blank
    THEN RStrip(SubSeq(text, 1, Len(text) - 1))
    ELSE text

Strip(text) == RStrip(LStrip(text))

\* The words of a string (str.split())
Words(text) == SelectSeq(text, LAMBDA t : t # Blank)

-----------------------------------------------------------------------------
(* Candidates of the beam *)

\* [seq, score] of the program; steps counts the predict invocations that
\* built seq (the candidate's lineage).
Candidate(seq, score, steps) == [seq |-> seq, score |-> score, steps |-> steps]

Last(seq) == seq[Len(seq)]

RemoveAt(s, i) == SubSeq(s, 1, i - 1) \o SubSeq(s, i + 1, Len(s))

\* A cut without the sort: the first k candidates in the order they were appended.
SortTopUnsorted(cands, k) ==
    {SubSeq(cands, 1, IF k <= Len(cands) THEN k ELSE Len(cands))}

\* all_candidates.sort(key=lambda x: x[1], reverse=True); all_candidates[:k]
\* The candidates in descending order of score, the first k of them.
RECURSIVE SortTop(_, _)
SortTop(cands, k) ==
    IF k = 0 \/ cands = <<>> THEN {<<>>}
    ELSE UNION { { <<cands[i]>> \o r : r \in SortTop(RemoveAt(cands, i), k - 1) } :
                 i \in { i \in 1..Len(cands) :
                         \A j \in 1..Len(cands) : cands[j].score <= cands[i].score } }

\* The words of best_sequence with the start word kept.
RECURSIVE CaptionWordsKeepsStart(_, _)
CaptionWordsKeepsStart(ids, wi) ==
    IF ids = <<>> THEN <<>>
    ELSE LET word == WordForId(Head(ids), wi)
         IN IF word = NoWord \/ word = "endseq" THEN <<>>
            ELSE <<word>> \o CaptionWordsKeepsStart(Tail(ids), wi)

\* The words of best_sequence with the ids that have no word passed over.
RECURSIVE CaptionWordsSkipsUnknown(_, _)
CaptionWordsSkipsUnknown(ids, wi) ==
    IF ids = <<>> THEN <<>>
    ELSE LET word == WordForId(Head(ids), wi)
         IN IF word = "endseq" THEN <<>>
            ELSE IF word # "startseq" /\ word # NoWord
            THEN <<word>> \o CaptionWordsSkipsUnknown(Tail(ids), wi)
            ELSE CaptionWordsSkipsUnknown(Tail(ids), wi)

\* The words of best_sequence up to the first id without a word or the end word,
\* the start word left out.
RECURSIVE CaptionWords(_, _)
CaptionWords(ids, wi) ==
    IF ids = <<>> THEN <<>>
    ELSE LET word == WordForId(Head(ids), wi)
         IN IF word = NoWord \/ word = "endseq" THEN <<>>
            ELSE IF word # "startseq" THEN <<word>> \o CaptionWords(Tail(ids), wi)
            ELSE CaptionWords(Tail(ids), wi)

-----------------------------------------------------------------------------
(* The stepping function: self.model.predict *)

\* predict answers d on the input padded: the same input gets the same answer.
Predicts(padded, d) ==
    /\ d \in model.dists
    /\ StepKey(padded) \in DOMAIN model.stepfn => d = model.stepfn[StepKey(padded)]

Answered(padded, d) ==
    [model EXCEPT !.stepfn = (StepKey(padded) :> d) @@ model.stepfn]

-----------------------------------------------------------------------------
(* Initial states of a decoding run *)

Tokenizers ==
    {[present |-> FALSE, word_index |-> <<>>]}
        \cup {[present |-> TRUE, word_index |-> wi] : wi \in WordIndexes}

Models == {[present |-> p, dists |-> ds, stepfn |-> <<>>] : p \in BOOLEAN, ds \in DistSets}

\* The caller decodes the same features in both modes, one after the other.
Runs == {<<"simple", "beam">>, <<"beam", "simple">>}

InitDecode ==
    /\ model \in Models
    /\ tokenizer \in Tokenizers
    /\ max_length \in 0..(IF model.dists = Dists THEN MaxLen ELSE MaxLongLen)
    /\ beam_width \in 1..MaxBeam
    /\ todo \in Runs
    /\ pc = "idle"
    /\ in_text = <<>>
    /\ g_iter = 0
    /\ sequences = <<>>
    /\ all_candidates = <<>>
    /\ b_iter = 0
    /\ b_idx = 0
    /\ calls = [simple |-> 0, beam |-> 0]
    /\ result_simple = <<>>
    /\ result_beam = <<>>
    /\ best_sequence = <<>>
    /\ returned = {}
    /\ raised = "none"

\* A test that forgets the tokenizer.
NotLoadedModelOnly == ~model.present

\* if self.model is None or self.tokenizer is None: raise ValueError
NotLoaded == ~model.present \/ ~tokenizer.present

-----------------------------------------------------------------------------
(* generate_caption_simple *)

simple_vars == <<in_text, g_iter, result_simple>>
beam_vars == <<sequences, all_candidates, b_iter, b_idx, result_beam, best_sequence>>
object_vars == <<tokenizer, max_length, beam_width>>

\* A loop that runs once more.
SimpleLoopDoneLate(iter) == iter >= max_length + 1

\* for _ in range(self.max_length): the loop is over after iter iterations
SimpleLoopDone(iter) == iter >= max_length

\* An ending that raises when the caption holds no word.
SimpleOutcomeEmptyRaises(text) ==
    LET caption == Strip(Replace(text, "startseq"))
    IN [raised |-> IF Words(caption) = <<>> THEN "EmptyOutput" ELSE "none",
        value |-> caption]

\* What the call ends with after the loop: no exception, and the caption.
SimpleOutcome(text) ==
    [raised |-> "none", value |-> Strip(Replace(text, "startseq"))]

SimpleEnter ==
    /\ pc = "idle" /\ todo # <<>> /\ Head(todo) = "simple"
    /\ IF NotLoaded
       THEN /\ raised' = "ValueError"
            /\ pc' = "raised"
            /\ UNCHANGED <<in_text, g_iter, calls>>
       ELSE /\ in_text' = <<"startseq">>
            /\ g_iter' = 0
            /\ calls' = [calls EXCEPT !.simple = 0]
            /\ pc' = IF SimpleLoopDone(0) THEN "simple_return" ELSE "simple_loop"
            /\ UNCHANGED raised
    /\ UNCHANGED <<model, object_vars, todo, beam_vars, result_simple, returned>>
    /\ UNCHANGED <<scene_vars, thread_vars, caption_vars>>

\* One iteration of the for loop.
SimpleStep ==
    /\ pc = "simple_loop"
    /\ LET sequence == PadPre(TextsToSequences(in_text, tokenizer.word_index), max_length)
       IN \E d \in model.dists :
            /\ Predicts(sequence, d)
            /\ model' = Answered(sequence, d)
            /\ calls' = [calls EXCEPT !.simple = @ + 1]
            /\ g_iter' = g_iter + 1
            /\ LET word == WordForId(ArgMax(d), tokenizer.word_index)
               IN IF word = NoWord \/ word = "endseq"
                  THEN /\ pc' = "simple_return"
                       /\ UNCHANGED in_text
                  ELSE /\ in_text' = in_text \o <<Blank, word>>
                       /\ pc' = IF SimpleLoopDone(g_iter + 1)
                                THEN "simple_return" ELSE "simple_loop"
    /\ UNCHANGED <<object_vars, todo, beam_vars, result_simple, returned, raised>>
    /\ UNCHANGED <<scene_vars, thread_vars, caption_vars>>

SimpleReturn ==
    /\ pc = "simple_return"
    /\ LET ending == SimpleOutcome(in_text)
       IN IF ending.raised = "none"
          THEN /\ result_simple' = ending.value
               /\ returned' = returned \cup {"simple"}
               /\ todo' = Tail(todo)
               /\ pc' = "idle"
               /\ UNCHANGED raised
          ELSE /\ raised' = ending.raised
               /\ pc' = "raised"
               /\ UNCHANGED <<result_simple, returned, todo>>
    /\ UNCHANGED <<model, object_vars, in_text, g_iter, beam_vars, calls>>
    /\ UNCHANGED <<scene_vars, thread_vars, caption_vars>>

-----------------------------------------------------------------------------
(* generate_caption_beam_search *)

StartToken == WordIndexGet(tokenizer.word_index, "startseq", 1)
EndToken == WordIndexGet(tokenizer.word_index, "endseq", 2)

\* A test that carries forward only the candidates that end with the end token.
FinishedAtEndOnly(cand) == Last(cand.seq) = EndToken

\* A test that lets a candidate grow one token beyond max_length.
FinishedLate(cand) == Len(cand.seq) >= max_length + 1 \/ Last(cand.seq) = EndToken

\* The test that carries a candidate forward instead of expanding it.
Finished(cand) == Len(cand.seq) >= max_length \/ Last(cand.seq) = EndToken

\* all(seq[0][-1] == end for seq in sequences)
AllEnded(seqs) == \A n \in 1..Len(seqs) : Last(seqs[n].seq) = EndToken

\* Expansions that keep the candidate itself among them.
ExpansionsKeepParent(cand, predictions, top_indices) ==
    <<cand>> \o [n \in 1..Len(top_indices) |->
                    Candidate(cand.seq \o <<top_indices[n]>>,
                              cand.score + LogProb(predictions[top_indices[n] + 1]),
                              cand.steps + 1)]

\* The candidates that expanding cand by the ids of top_indices appends.
Expansions(cand, predictions, top_indices) ==
    [n \in 1..Len(top_indices) |->
        Candidate(cand.seq \o <<top_indices[n]>>,
                  cand.score + LogProb(predictions[top_indices[n] + 1]),
                  cand.steps + 1)]

\* A loop that runs once more.
BeamLoopDoneLate(iter) == iter >= max_length + 1

\* for _ in range(self.max_length): the loop is over after iter iterations
BeamLoopDone(iter) == iter >= max_length

\* A choice of the last candidate of the frontier.
BestSequenceLast(seqs) == seqs[Len(seqs)].seq

\* best_sequence = sequences[0][0]
BestSequence(seqs) == seqs[1].seq

\* What the call ends with after the loop: no exception, and the caption.
BeamOutcome(best, wi) ==
    [raised |-> "none", value |-> Join(CaptionWords(best, wi))]

BeamEnter ==
    /\ pc = "idle" /\ todo # <<>> /\ Head(todo) = "beam"
    /\ IF NotLoaded
       THEN /\ raised' = "ValueError"
            /\ pc' = "raised"
            /\ UNCHANGED <<sequences, all_candidates, b_iter, b_idx, calls>>
       ELSE /\ sequences' = <<Candidate(<<StartToken>>, 0, 0)>>
            /\ all_candidates' = <<>>
            /\ b_iter' = 0
            /\ b_idx' = 1
            /\ calls' = [calls EXCEPT !.beam = 0]
            /\ pc' = IF BeamLoopDone(0) THEN "beam_return" ELSE "beam_loop"
            /\ UNCHANGED raised
    /\ UNCHANGED <<model, object_vars, todo, simple_vars, result_beam, best_sequence,
                   returned>>
    /\ UNCHANGED <<scene_vars, thread_vars, caption_vars>>

\* The inner loop on a candidate that is carried forward.
BeamCarry ==
    /\ pc = "beam_loop" /\ b_idx <= Len(sequences)
    /\ Finished(sequences[b_idx])
    /\ all_candidates' = Append(all_candidates, sequences[b_idx])
    /\ b_idx' = b_idx + 1
    /\ UNCHANGED <<model, object_vars, todo, pc, simple_vars, sequences, b_iter, calls,
                   result_beam, best_sequence, returned, raised>>
    /\ UNCHANGED <<scene_vars, thread_vars, caption_vars>>

\* The inner loop on a candidate that is expanded.
BeamExpand ==
    /\ pc = "beam_loop" /\ b_idx <= Len(sequences)
    /\ ~Finished(sequences[b_idx])
    /\ LET cand == sequences[b_idx]
           padded_seq == PadPost(cand.seq, max_length)
       IN \E d \in model.dists :
            /\ Predicts(padded_seq, d)
            /\ model' = Answered(padded_seq, d)
            /\ \E top_indices \in ArgSortTop(d, beam_width) :
                 all_candidates' = all_candidates \o Expansions(cand, d, top_indices)
    /\ calls' = [calls EXCEPT !.beam = @ + 1]
    /\ b_idx' = b_idx + 1
    /\ UNCHANGED <<object_vars, todo, pc, simple_vars, sequences, b_iter,
                   result_beam, best_sequence, returned, raised>>
    /\ UNCHANGED <<scene_vars, thread_vars, caption_vars>>

\* The end of one iteration of the outer loop: sort, cut, test for the break.
BeamSelect ==
    /\ pc = "beam_loop" /\ b_idx > Len(sequences)
    /\ \E kept \in SortTop(all_candidates, beam_width) :
         /\ sequences' = kept
         /\ IF AllEnded(kept) \/ BeamLoopDone(b_iter + 1)
            THEN /\ pc' = "beam_return"
                 /\ UNCHANGED <<all_candidates, b_idx>>
            ELSE /\ pc' = "beam_loop"
                 /\ all_candidates' = <<>>
                 /\ b_idx' = 1
    /\ b_iter' = b_iter + 1
    /\ UNCHANGED <<model, object_vars, todo, simple_vars, calls, result_beam,
                   best_sequence, returned, raised>>
    /\ UNCHANGED <<scene_vars, thread_vars, caption_vars>>

BeamReturn ==
    /\ pc = "beam_return"
    /\ best_sequence' = BestSequence(sequences)
    /\ LET ending == BeamOutcome(BestSequence(sequences), tokenizer.word_index)
       IN IF ending.raised = "none"
          THEN /\ result_beam' = ending.value
               /\ returned' = returned \cup {"beam"}
               /\ todo' = Tail(todo)
               /\ pc' = "idle"
               /\ UNCHANGED raised
          ELSE /\ raised' = ending.raised
               /\ pc' = "raised"
               /\ UNCHANGED <<result_beam, returned, todo>>
    /\ UNCHANGED <<model, object_vars, simple_vars, sequences, all_candidates, b_iter,
                   b_idx, calls>>
    /\ UNCHANGED <<scene_vars, thread_vars, caption_vars>>

-----------------------------------------------------------------------------

NextDecode ==
    \/ SimpleEnter
    \/ SimpleStep
    \/ SimpleReturn
    \/ BeamEnter
    \/ BeamCarry
    \/ BeamExpand
    \/ BeamSelect
    \/ BeamReturn



-----------------------------------------------------------------------------
(* Scene classification: SmartCaptionGenerator *)
(* A confidence is in hundredths, a position weight in tenths, a score and a *)
(* returned confidence in thousandths (700 = 0.7).  The scores are exact     *)
(* where the program rounds to a double.                                     *)

\* config.SCENE_CATEGORIES: the categories in the order of the dict, with their keywords
SCENE_CATEGORIES ==
    << [category |-> "people",
        keywords |-> << "person", "man", "woman", "child", "baby",
                      "face", "human", "people", "boy", "girl" >>],
       [category |-> "animal",
        keywords |-> << "dog", "cat", "bird", "horse", "cow", "sheep",
                      "elephant", "lion", "tiger", "bear", "rabbit",
                      "fish", "pet" >>],
       [category |-> "food",
        keywords |-> << "pizza", "burger", "sandwich", "cake", "bread",
                      "fruit", "apple", "banana", "food", "meal",
                      "dish" >>],
       [category |-> "vehicle",
        keywords |-> << "car", "truck", "bus", "motorcycle", "bicycle",
                      "train", "airplane", "boat", "ship", "vehicle" >>],
       [category |-> "nature",
        keywords |-> << "tree", "flower", "mountain", "beach", "ocean",
                      "forest", "grass", "sky", "cloud", "sunset",
                      "landscape" >>],
       [category |-> "architecture",
        keywords |-> << "building", "house", "church", "tower",
                      "bridge", "castle", "monument", "structure" >>],
       [category |-> "indoor",
        keywords |-> << "room", "kitchen", "bedroom", "office",
                      "restaurant", "store", "museum", "interior" >>],
       [category |-> "outdoor",
        keywords |-> << "park", "street", "road", "garden", "field",
                      "landscape", "outdoor" >>] >>

\* self.scene_keywords, built by __init__ from SCENE_CATEGORIES
scene_keywords == [n \in 1..Len(SCENE_CATEGORIES) |-> SCENE_CATEGORIES[n].keywords]

CategoryName(n) == SCENE_CATEGORIES[n].category

\* keyword in pred: pred holds keyword as a substring, letter case included
Contains(pred, keyword) ==
    \E i \in 1..(Len(pred) - Len(keyword) + 1) :
        SubSeq(pred, i, i + Len(keyword) - 1) = keyword

\* any(keyword in pred for keyword in keywords)
AnyKeyword(pred, keywords) ==
    \E k \in 1..Len(keywords) : Contains(pred, keywords[k])

\* A choice of the last category of the highest score.
BestCategoryLast(category_scores) ==
    CHOOSE n \in DOMAIN category_scores :
        /\ \A m \in DOMAIN category_scores : category_scores[m] <= category_scores[n]
        /\ \A m \in DOMAIN category_scores :
             category_scores[m] = category_scores[n] => m <= n

\* max(category_scores, key=category_scores.get): the first category of the
\* highest score
BestCategory(category_scores) ==
    CHOOSE n \in DOMAIN category_scores :
        /\ \A m \in DOMAIN category_scores : category_scores[m] <= category_scores[n]
        /\ \A m \in DOMAIN category_scores :
             category_scores[m] = category_scores[n] => n <= m

General == [raised |-> "none", category |-> "general", confidence |-> 500]

\* A count that adds one for every keyword a prediction holds.
MatchCountPerKeyword(predictions, keywords) ==
    Cardinality({ik \in (1..Len(predictions)) \X (1..Len(keywords)) :
                    Contains(predictions[ik[1]], keywords[ik[2]])})

\* sum(1 for pred in predictions if any(keyword in pred for keyword in keywords))
MatchCount(predictions, keywords) ==
    Cardinality({i \in 1..Len(predictions) : AnyKeyword(predictions[i], keywords)})

\* category_scores after the loop over the first n categories
RECURSIVE CountScores(_, _)
CountScores(predictions, n) ==
    IF n = 0 THEN <<>>
    ELSE Append(CountScores(predictions, n - 1),
                MatchCount(predictions, scene_keywords[n]))

\* The end of categorize_scene: the best category of the counts.
BestCounted(category_scores) ==
    LET best_category == BestCategory(category_scores)
    IN IF category_scores[best_category] > 0
       THEN [raised |-> "none", category |-> CategoryName(best_category),
             confidence |-> 700]
       ELSE General

categorize_scene(predictions) ==
    BestCounted(CountScores(predictions, Len(SCENE_CATEGORIES)))

\* A lookup without the test of the rank against the length.
ConfidenceWeightUnguarded(confidence_scores, i) ==
    IF i < Len(confidence_scores)
    THEN [raised |-> "none", value |-> confidence_scores[i + 1]]
    ELSE [raised |-> "IndexError", value |-> 0]

\* confidence_scores[i] if i < len(confidence_scores) else 0.1, rank i from 0
ConfidenceWeight(confidence_scores, i) ==
    IF i < Len(confidence_scores)
    THEN [raised |-> "none", value |-> confidence_scores[i + 1]]
    ELSE [raised |-> "none", value |-> 10]

\* A position weight that is the same at every rank.
PositionWeightFlat(i) == 10

\* position_weight = 1.0 - (i * 0.1), rank i from 0
PositionWeight(i) == 10 - i

\* A count that stops at the first keyword a prediction holds.
KeywordCountCapped(pred, keywords) ==
    IF \E k \in 1..Len(keywords) : Contains(pred, keywords[k]) THEN 1 ELSE 0

\* The number of keywords for which "if keyword in pred" holds.
KeywordCount(pred, keywords) ==
    Cardinality({k \in 1..Len(keywords) : Contains(pred, keywords[k])})

\* For the first n predictions, the number of keywords each of them holds.
RECURSIVE Hits(_, _, _)
Hits(predictions, keywords, n) ==
    IF n = 0 THEN <<>>
    ELSE Append(Hits(predictions, keywords, n - 1),
                KeywordCount(predictions[n], keywords))

\* The hits of the first n categories.
RECURSIVE KeywordHits(_, _)
KeywordHits(predictions, n) ==
    IF n = 0 THEN <<>>
    ELSE Append(KeywordHits(predictions, n - 1),
                Hits(predictions, scene_keywords[n], Len(predictions)))

\* weighted_score after the first n predictions:
\* weighted_score += position_weight * confidence_weight * 2, once for every
\* keyword the prediction holds; an exception of the confidence lookup ends
\* the call.
RECURSIVE WeightedScore(_, _, _)
WeightedScore(hits, confidence_scores, n) ==
    IF n = 0 THEN [raised |-> "none", value |-> 0]
    ELSE LET acc == WeightedScore(hits, confidence_scores, n - 1)
             i == n - 1
             confidence_weight == ConfidenceWeight(confidence_scores, i)
         IN IF acc.raised # "none" \/ hits[n] = 0 THEN acc
            ELSE IF confidence_weight.raised # "none"
            THEN [raised |-> confidence_weight.raised, value |-> 0]
            ELSE [raised |-> "none",
                  value |-> acc.value + hits[n] * (PositionWeight(i)
                                                   * confidence_weight.value * 2)]

\* category_scores after the loop over the first n categories
RECURSIVE WeightedScores(_, _, _)
WeightedScores(hits, confidence_scores, n) ==
    IF n = 0 THEN <<>>
    ELSE Append(WeightedScores(hits, confidence_scores, n - 1),
                WeightedScore(hits[n], confidence_scores, Len(hits[n])))

Min(a, b) == IF a <= b THEN a ELSE b

\* The values of the scores.
RECURSIVE ScoreValues(_, _)
ScoreValues(scored, n) ==
    IF n = 0 THEN <<>> ELSE Append(ScoreValues(scored, n - 1), scored[n].value)

\* An end that takes a best score of 0.3 for a match.
BestWeightedFromThreshold(scored) ==
    LET scores == ScoreValues(scored, Len(scored))
        best_category == BestCategory(scores)
        max_score == scores[best_category]
    IN IF \E n \in DOMAIN scored : scored[n].raised # "none"
       THEN [raised |-> "IndexError", category |-> "", confidence |-> 0]
       ELSE IF max_score >= 300
       THEN [raised |-> "none", category |-> CategoryName(best_category),
             confidence |-> Min(max_score, 1000)]
       ELSE General

\* The end of advanced_scene_categorization: the best category of the scores.
BestWeighted(scored) ==
    LET scores == ScoreValues(scored, Len(scored))
        best_category == BestCategory(scores)
        max_score == scores[best_category]
    IN IF \E n \in DOMAIN scored : scored[n].raised # "none"
       THEN [raised |-> "IndexError", category |-> "", confidence |-> 0]
       ELSE IF max_score > 300
       THEN [raised |-> "none", category |-> CategoryName(best_category),
             confidence |-> Min(max_score, 1000)]
       ELSE General

advanced_scene_categorization(predictions, confidence_scores) ==
    BestWeighted(WeightedScores(KeywordHits(predictions, Len(SCENE_CATEGORIES)),
                                confidence_scores, Len(SCENE_CATEGORIES)))

\* str.lower()
UpperToLower ==
    ("A" :> "a") @@ ("B" :> "b") @@ ("C" :> "c") @@ ("D" :> "d") @@ ("E" :>
    "e") @@ ("F" :> "f") @@ ("G" :> "g") @@ ("H" :> "h") @@ ("I" :> "i") @@
    ("J" :> "j") @@ ("K" :> "k") @@ ("L" :> "l") @@ ("M" :> "m") @@ ("N" :>
    "n") @@ ("O" :> "o") @@ ("P" :> "p") @@ ("Q" :> "q") @@ ("R" :> "r") @@
    ("S" :> "s") @@ ("T" :> "t") @@ ("U" :> "u") @@ ("V" :> "v") @@ ("W" :>
    "w") @@ ("X" :> "x") @@ ("Y" :> "y") @@ ("Z" :> "z")

\* A lower() that leaves the string as it is.
LowerUnchanged(str) == str

RECURSIVE Lower(_)
Lower(str) ==
    IF Len(str) = 0 THEN ""
    ELSE LET c == SubSeq(str, 1, 1)
         IN (IF c \in DOMAIN UpperToLower THEN UpperToLower[c] ELSE c)
                \o Lower(SubSeq(str, 2, Len(str)))

\* decode_predictions(predictions, top=10)[0]: at most ten predictions
TopTen(decoded) == SubSeq(decoded, 1, Min(Len(decoded), 10))

Fallback ==
    [raised |-> "none", category |-> "general", confidence |-> 500,
     top_classes |-> <<"subject">>]

\* [pred[1].lower() for pred in decoded_predictions], the first n of them
RECURSIVE LowerAll(_, _)
LowerAll(decoded, n) ==
    IF n = 0 THEN <<>> ELSE Append(LowerAll(decoded, n - 1), Lower(decoded[n]))

\* An analysis without the except clause: what predict raises ends the call.
AnalyzeUnguarded(loaded, inference, decoded) ==
    IF ~loaded THEN Fallback
    ELSE IF ~inference
    THEN [raised |-> "Exception", category |-> "", confidence |-> 0, top_classes |-> <<>>]
    ELSE LET top_classes == LowerAll(TopTen(decoded), Len(TopTen(decoded)))
             scene == categorize_scene(top_classes)
         IN [raised |-> scene.raised, category |-> scene.category,
             confidence |-> scene.confidence, top_classes |-> top_classes]

\* analyze_image_content, on what the classifier decodes for the image;
\* inference is whether predict returns rather than raises.
analyze_image_content(loaded, inference, decoded) ==
    IF ~loaded THEN Fallback
    ELSE IF ~inference THEN Fallback
    ELSE LET top_classes == LowerAll(TopTen(decoded), Len(TopTen(decoded)))
             scene == categorize_scene(top_classes)
         IN IF scene.raised # "none" THEN Fallback
            ELSE [raised |-> "none", category |-> scene.category,
                  confidence |-> scene.confidence, top_classes |-> top_classes]

-----------------------------------------------------------------------------
(* Calls of the scene classifier *)

Labels == {"dog", "DOG", "woman", "carpet", "Petri_dish", "landscape",
           "golden_retriever"}
ConfLevels == {5, 15, 90}

LabelLists == UNION {[1..n -> Labels] : n \in 0..MaxPreds}

\* Confidences come ranked: in descending order.
ConfLists ==
    {c \in UNION {[1..n -> ConfLevels] : n \in 0..MaxPreds} :
        \A i \in 1..(Len(c) - 1) : c[i] >= c[i + 1]}

\* A long list: rank labels that hold no keyword, then one that does.
LongLabelLists ==
    {[i \in 1..(rank + 1) |-> IF i <= rank THEN "golden_retriever" ELSE l] :
        rank \in 9..MaxRank, l \in {"dog", "woman"}}

\* The confidences of a list of n predictions: the ranked lists for a short
\* one, none or the same confidence throughout for a long one.
ConfListsFor(n) ==
    IF n <= MaxPreds THEN ConfLists
    ELSE {<<>>} \cup {[i \in 1..n |-> c] : c \in ConfLevels}

NoOutcome == [raised |-> "none", category |-> "", confidence |-> 0, top_classes |-> <<>>]

WithTopClasses(scene, top_classes) ==
    [raised |-> scene.raised, category |-> scene.category,
     confidence |-> scene.confidence, top_classes |-> top_classes]

InitScene ==
    /\ encoder_model = FALSE
    /\ inception_full = FALSE
    /\ scene_pc = "new"
    /\ method = ""
    /\ labels = <<>>
    /\ confidences = <<>>
    /\ final_scores = <<>>
    /\ outcome = NoOutcome

\* SmartCaptionGenerator(): load_encoder catches what loading raises.
Construct ==
    /\ scene_pc = "new"
    /\ \E loaded \in {"none", "encoder", "both"} :
         /\ encoder_model' = (loaded # "none")
         /\ inception_full' = (loaded = "both")
    /\ scene_pc' = "ready"
    /\ UNCHANGED <<method, labels, confidences, final_scores, outcome>>
    /\ UNCHANGED <<decode_vars, thread_vars, caption_vars>>

CallCategorizeScene ==
    /\ scene_pc = "ready"
    /\ \E p \in LabelLists :
         \* categorize_scene(p)
         \E category_scores \in {CountScores(p, Len(SCENE_CATEGORIES))} :
            /\ labels' = p
            /\ final_scores' = category_scores
            /\ outcome' = WithTopClasses(BestCounted(category_scores), <<>>)
    /\ method' = "categorize_scene"
    /\ scene_pc' = "done"
    /\ UNCHANGED <<encoder_model, inception_full, confidences>>
    /\ UNCHANGED <<decode_vars, thread_vars, caption_vars>>

CallAdvancedSceneCategorization ==
    /\ scene_pc = "ready"
    /\ \E p \in LabelLists \cup LongLabelLists :
         \* advanced_scene_categorization(p, c); the hits depend on p alone
         \E hits \in {KeywordHits(p, Len(SCENE_CATEGORIES))}, c \in ConfListsFor(Len(p)) :
            \E scored \in {WeightedScores(hits, c, Len(SCENE_CATEGORIES))} :
              /\ labels' = p
              /\ confidences' = c
              /\ final_scores' = ScoreValues(scored, Len(scored))
              /\ outcome' = WithTopClasses(BestWeighted(scored), <<>>)
    /\ method' = "advanced_scene_categorization"
    /\ scene_pc' = "done"
    /\ UNCHANGED <<encoder_model, inception_full>>
    /\ UNCHANGED <<decode_vars, thread_vars, caption_vars>>

CallAnalyzeImageContent ==
    /\ scene_pc = "ready"
    /\ \E p \in LabelLists, inference \in BOOLEAN :
         /\ labels' = p
         /\ method' = IF inference THEN "analyze_image_content"
                      ELSE "analyze_image_content: predict raises"
         /\ outcome' = analyze_image_content(inception_full, inference, p)
         /\ final_scores' =
              IF inception_full /\ inference
              THEN CountScores(outcome'.top_classes, Len(SCENE_CATEGORIES))
              ELSE <<>>
    /\ scene_pc' = "done"
    /\ UNCHANGED <<encoder_model, inception_full, confidences>>
    /\ UNCHANGED <<decode_vars, thread_vars, caption_vars>>

NextScene ==
    \/ Construct
    \/ CallCategorizeScene
    \/ CallAdvancedSceneCategorization
    \/ CallAnalyzeImageContent

-----------------------------------------------------------------------------
(* Threads that call one ImageCaptionModel and one SmartCaptionGenerator *)
(* A step of a thread is one iteration of a loop of its call; the steps of    *)
(* the threads interleave.  The objects are loaded, and predict is a function *)
(* of its input.                                                              *)

Threads == 1..MaxThreads

\* Locals that every call would find in one place.
FrameShared(t) == 1

\* The local variables of a call are those of its own activation: the call of
\* thread t runs in frame t.
Frame(t) == t

NoLocals ==
    [category_scores |-> <<>>, n |-> 0,
     sequences |-> <<>>, all_candidates |-> <<>>, b_iter |-> 0, b_idx |-> 0]

Pending == [raised |-> "pending"]

IdleThread ==
    [call |-> "", predictions |-> <<>>, confidence_scores |-> <<>>, beam_width |-> 0,
     pc |-> "idle", value |-> Pending]

ThreadsIdle ==
    /\ threads = [t \in Threads |-> IdleThread]
    /\ frames = [t \in Threads |-> NoLocals]

\* The arguments the threads call with.
ThreadLabelLists == {<<"dog">>, <<"woman", "carpet">>}
ThreadRankedLists == {<<"woman", "carpet">>}
ThreadConfLists == {<<90>>}

\* The stepping function of the loaded model: a tie of two words after the
\* start word, then a word, then the end.
ThreadDists == {TieADog, FavourA, FavourEnd}
ThreadStepFns ==
    {[k \in 0..MaxLen |-> IF k = 1 THEN TieADog
                           ELSE IF k = 2 THEN FavourA ELSE FavourEnd]}

Running(t, call, p, c, bw, at) ==
    [threads EXCEPT ![t] = [call |-> call, predictions |-> p, confidence_scores |-> c,
                            beam_width |-> bw, pc |-> at, value |-> Pending]]

Returned(t, value) ==
    [threads EXCEPT ![t] = [@ EXCEPT !.pc = "done", !.value = value]]

\* category_scores = {} and the start of the loop over self.scene_keywords
ClassifyLocals(f) == [f EXCEPT !.category_scores = <<>>, !.n = 1]

ThreadCategorizeScene(t) ==
    /\ threads[t].pc = "idle"
    /\ \E p \in ThreadLabelLists :
         threads' = Running(t, "categorize_scene", p, <<>>, 0, "classify_loop")
    /\ frames' = [frames EXCEPT ![Frame(t)] = ClassifyLocals(@)]
    /\ UNCHANGED <<decode_vars, scene_vars, caption_vars>>

ThreadAdvancedSceneCategorization(t) ==
    /\ threads[t].pc = "idle"
    /\ \E p \in ThreadRankedLists, c \in ThreadConfLists :
         threads' = Running(t, "advanced_scene_categorization", p, c, 0, "classify_loop")
    /\ frames' = [frames EXCEPT ![Frame(t)] = ClassifyLocals(@)]
    /\ UNCHANGED <<decode_vars, scene_vars, caption_vars>>

\* The score of the n-th category for the call of thread t.
CategoryScore(th, n) ==
    IF th.call = "categorize_scene"
    THEN [raised |-> "none", value |-> MatchCount(th.predictions, scene_keywords[n])]
    ELSE WeightedScore(Hits(th.predictions, scene_keywords[n], Len(th.predictions)),
                       th.confidence_scores, Len(th.predictions))

\* One iteration of the loop over the categories.
ThreadClassifyStep(t) ==
    /\ threads[t].pc = "classify_loop"
    /\ frames[Frame(t)].n <= Len(SCENE_CATEGORIES)
    /\ frames' = [frames EXCEPT ![Frame(t)] =
                    [@ EXCEPT !.category_scores =
                                  Append(@, CategoryScore(threads[t], frames[Frame(t)].n)),
                              !.n = @ + 1]]
    /\ UNCHANGED <<threads, decode_vars, scene_vars, caption_vars>>

\* After the loop: the best category of the scores.
ThreadClassifyReturn(t) ==
    /\ threads[t].pc = "classify_loop"
    /\ frames[Frame(t)].n > Len(SCENE_CATEGORIES)
    /\ LET scored == frames[Frame(t)].category_scores
       IN threads' = Returned(t, IF threads[t].call = "categorize_scene"
                                 THEN BestCounted(ScoreValues(scored, Len(scored)))
                                 ELSE BestWeighted(scored))
    /\ UNCHANGED <<frames, decode_vars, scene_vars, caption_vars>>

ThreadBeamSearch(t) ==
    /\ threads[t].pc = "idle"
    /\ \E bw \in {MaxBeam} :
         threads' = Running(t, "generate_caption_beam_search", <<>>, <<>>, bw,
                            IF BeamLoopDone(0) THEN "beam_return" ELSE "beam_loop")
    /\ frames' = [frames EXCEPT ![Frame(t)] =
                    [@ EXCEPT !.sequences = <<Candidate(<<StartToken>>, 0, 0)>>,
                              !.all_candidates = <<>>, !.b_iter = 0, !.b_idx = 1]]
    /\ UNCHANGED <<decode_vars, scene_vars, caption_vars>>

ThreadBeamCarry(t) ==
    /\ threads[t].pc = "beam_loop"
    /\ LET f == frames[Frame(t)]
       IN /\ f.b_idx <= Len(f.sequences)
          /\ Finished(f.sequences[f.b_idx])
          /\ frames' = [frames EXCEPT ![Frame(t)] =
                          [@ EXCEPT !.all_candidates = Append(@, f.sequences[f.b_idx]),
                                    !.b_idx = @ + 1]]
    /\ UNCHANGED <<threads, decode_vars, scene_vars, caption_vars>>

ThreadBeamExpand(t) ==
    /\ threads[t].pc = "beam_loop"
    /\ LET f == frames[Frame(t)]
       IN /\ f.b_idx <= Len(f.sequences)
          /\ ~Finished(f.sequences[f.b_idx])
          /\ LET cand == f.sequences[f.b_idx]
                 padded_seq == PadPost(cand.seq, max_length)
             IN \E d \in model.dists :
                  /\ Predicts(padded_seq, d)
                  /\ model' = Answered(padded_seq, d)
                  /\ \E top_indices \in ArgSortTop(d, threads[t].beam_width) :
                       frames' = [frames EXCEPT ![Frame(t)] =
                                    [@ EXCEPT !.all_candidates =
                                                  @ \o Expansions(cand, d, top_indices),
                                              !.b_idx = @ + 1]]
    /\ UNCHANGED <<threads, scene_vars, caption_vars>>
    /\ UNCHANGED <<object_vars, todo, pc, simple_vars, beam_vars, calls, returned, raised>>

ThreadBeamSelect(t) ==
    /\ threads[t].pc = "beam_loop"
    /\ LET f == frames[Frame(t)]
       IN /\ f.b_idx > Len(f.sequences)
          /\ \E kept \in SortTop(f.all_candidates, threads[t].beam_width) :
               IF AllEnded(kept) \/ BeamLoopDone(f.b_iter + 1)
               THEN /\ frames' = [frames EXCEPT ![Frame(t)] =
                                    [@ EXCEPT !.sequences = kept, !.b_iter = @ + 1]]
                    /\ threads' = [threads EXCEPT ![t].pc = "beam_return"]
               ELSE /\ frames' = [frames EXCEPT ![Frame(t)] =
                                    [@ EXCEPT !.sequences = kept, !.b_iter = @ + 1,
                                              !.all_candidates = <<>>, !.b_idx = 1]]
                    /\ UNCHANGED threads
    /\ UNCHANGED <<decode_vars, scene_vars, caption_vars>>

ThreadBeamReturn(t) ==
    /\ threads[t].pc = "beam_return"
    /\ threads' = Returned(t, BeamOutcome(BestSequence(frames[Frame(t)].sequences),
                                          tokenizer.word_index))
    /\ UNCHANGED <<frames, decode_vars, scene_vars, caption_vars>>

NextThreads ==
    \E t \in Threads :
        \/ ThreadCategorizeScene(t)
        \/ ThreadAdvancedSceneCategorization(t)
        \/ ThreadClassifyStep(t)
        \/ ThreadClassifyReturn(t)
        \/ ThreadBeamSearch(t)
        \/ ThreadBeamCarry(t)
        \/ ThreadBeamExpand(t)
        \/ ThreadBeamSelect(t)
        \/ ThreadBeamReturn(t)

-----------------------------------------------------------------------------
(* _extract_contextual_info *)

object_keywords ==
    <<"person", "dog", "cat", "car", "building", "tree", "flower", "food">>
environment_keywords ==
    <<"outdoor", "indoor", "beach", "forest", "city", "room", "kitchen">>
activity_keywords ==
    <<"playing", "running", "sitting", "walking", "eating", "sleeping">>
mood_keywords ==
    <<"sunset", "sunny", "cloudy", "bright", "dark", "colorful">>

\* pred.replace('_', ' ')
RECURSIVE ReplaceUnderscoreTo(_, _)
ReplaceUnderscoreTo(str, n) ==
    IF n = 0 THEN ""
    ELSE LET c == SubSeq(str, n, n)
         IN ReplaceUnderscoreTo(str, n - 1) \o (IF c = "_" THEN " " ELSE c)

ReplaceUnderscore(str) == ReplaceUnderscoreTo(str, Len(str))

\* A cut that keeps every prediction.
FirstAll(predictions) == predictions

\* predictions[:8]
FirstEight(predictions) == SubSeq(predictions, 1, Min(Len(predictions), 8))

\* Tests that take a confidence of 0.1 for confident.
GateFromThreshold(part, confidence) ==
    /\ confidence >= 10
    /\ part = "primary" => confidence > 30
    /\ part = "secondary" => ~(confidence > 30)

\* The tests on the confidence that lead to the append of a bucket:
\* confidence > 0.1, then for the objects confidence > 0.3 (primary) or not
\* (secondary).
Gate(part, confidence) ==
    /\ confidence > 10
    /\ part = "primary" => confidence > 30
    /\ part = "secondary" => ~(confidence > 30)

\* One list of the context after the first n predictions: the labels of the
\* predictions that pass the tests of the part and hold a keyword of keywords.
RECURSIVE Bucket(_, _, _, _, _)
Bucket(predictions, confidence_scores, part, keywords, n) ==
    IF n = 0 THEN <<>>
    ELSE LET before == Bucket(predictions, confidence_scores, part, keywords, n - 1)
             pred == predictions[n]
             confidence == ConfidenceWeight(confidence_scores, n - 1).value
         IN IF Gate(part, confidence) /\ AnyKeyword(pred, keywords)
            THEN Append(before, ReplaceUnderscore(pred))
            ELSE before

extract_contextual_info(predictions, confidence_scores) ==
    LET first == FirstEight(predictions)
    IN [primary_objects |->
            Bucket(first, confidence_scores, "primary", object_keywords, Len(first)),
        secondary_objects |->
            Bucket(first, confidence_scores, "secondary", object_keywords, Len(first)),
        environment |->
            Bucket(first, confidence_scores, "any", environment_keywords, Len(first)),
        activity_indicators |->
            Bucket(first, confidence_scores, "any", activity_keywords, Len(first)),
        mood_indicators |->
            Bucket(first, confidence_scores, "any", mood_keywords, Len(first))]

NoContext ==
    [primary_objects |-> <<>>, secondary_objects |-> <<>>, environment |-> <<>>,
     activity_indicators |-> <<>>, mood_indicators |-> <<>>]

\* The predictions and the confidences the method is called with.
ContextLabels == {"dog_running", "car", "sunny_beach", "cat", "golden_retriever"}
ContextConfLevels == {10, 30, 90}

ContextLabelLists == UNION {[1..n -> ContextLabels] : n \in 0..MaxPreds}

\* Confidences come ranked; the list may be shorter than the predictions.
ContextConfLists ==
    {c \in UNION {[1..n -> ContextConfLevels] : n \in 0..MaxPreds} :
        \A i \in 1..(Len(c) - 1) : c[i] >= c[i + 1]}

\* Long lists: labels that hold no keyword, then two that do, at the ranks
\* around the eighth.
ContextLongLists ==
    {[i \in 1..(k + 2) |-> IF i <= k THEN "golden_retriever"
                           ELSE IF i = k + 1 THEN a ELSE b] :
        k \in 6..(MaxRank - 3), a \in {"dog_running", "cat"}, b \in {"cat", "sunny_beach"}}

ContextConfListsFor(n) ==
    IF n <= MaxPreds THEN ContextConfLists
    ELSE {[i \in 1..m |-> 90] : m \in 7..n}

CallExtractContextualInfo ==
    /\ scene_pc = "ready"
    /\ \E p \in ContextLabelLists \cup ContextLongLists :
         \E c \in ContextConfListsFor(Len(p)) :
            /\ labels' = p
            /\ confidences' = c
            /\ context' = extract_contextual_info(p, c)
    /\ method' = "_extract_contextual_info"
    /\ scene_pc' = "done"
    /\ UNCHANGED <<encoder_model, inception_full, final_scores, outcome>>
    /\ UNCHANGED <<tone, num_captions, classes, captions, unique_captions, multi_pc,
                   multi_result>>
    /\ UNCHANGED <<decode_vars, thread_vars>>

MultiIdle ==
    /\ tone = ""
    /\ num_captions = 0
    /\ classes = <<>>
    /\ captions = <<>>
    /\ unique_captions = <<>>
    /\ multi_pc = "idle"
    /\ multi_result = <<>>

CaptionsIdle == context = NoContext /\ MultiIdle

-----------------------------------------------------------------------------
(* generate_multiple_captions *)

\* The largest number of captions asked for.
MaxCaptions == 3

IsLetter(c) == c \in DOMAIN UpperToLower \/ c \in {UpperToLower[u] : u \in DOMAIN UpperToLower}

\* str.title(), the first n characters: the first letter of every run of
\* letters in capitals, the other letters in lower case.
RECURSIVE TitleTo(_, _)
TitleTo(str, n) ==
    IF n = 0 THEN ""
    ELSE LET c == SubSeq(str, n, n)
             inWord == n > 1 /\ IsLetter(SubSeq(str, n - 1, n - 1))
             lower == IF c \in DOMAIN UpperToLower THEN UpperToLower[c] ELSE c
             upper == IF IsLetter(c)
                      THEN CHOOSE u \in DOMAIN UpperToLower : UpperToLower[u] = lower
                      ELSE c
         IN TitleTo(str, n - 1) \o (IF inWord THEN lower ELSE upper)

Title(str) == TitleTo(str, Len(str))

\* str.replace(' ', ''), the first n characters
RECURSIVE RemoveSpacesTo(_, _)
RemoveSpacesTo(str, n) ==
    IF n = 0 THEN ""
    ELSE LET c == SubSeq(str, n, n)
         IN RemoveSpacesTo(str, n - 1) \o (IF c = " " THEN "" ELSE c)

RemoveSpaces(str) == RemoveSpacesTo(str, Len(str))

\* ", ".join(list)
RECURSIVE JoinComma(_)
JoinComma(list) ==
    IF Len(list) = 0 THEN ""
    ELSE IF Len(list) = 1 THEN list[1]
    ELSE list[1] \o ", " \o JoinComma(Tail(list))

\* top_classes[0].replace('_', ' ') if top_classes else "subject"
MainSubject(top_classes) ==
    IF top_classes # <<>> THEN ReplaceUnderscore(top_classes[1]) ELSE "subject"

creative_words == {"stunning", "breathtaking", "mesmerizing", "captivating", "enchanting"}
creative_endings == {"tells a story", "captures the imagination", "evokes emotion"}
professional_terms == {"composition", "lighting", "perspective", "technical execution"}
casual_words == {"awesome", "cool", "amazing", "sweet", "nice"}
poetic_phrases == {"like a painted dream", "poetry in visual form", "a moment frozen in beauty"}
\* The four pairs of emoji, by their names.
emoji_sets == {"[sparkles][fire]", "[dizzy][star]", "[glowing star][gem]", "[palette][camera]"}

\* ", ".join(top_classes[1:3]) if len(top_classes) > 1 else "visual elements"
Details(top_classes) ==
    IF Len(top_classes) > 1
    THEN JoinComma(SubSeq(top_classes, 2, Min(Len(top_classes), 3)))
    ELSE "visual elements"

\* The captions one pass of the for loop can build: one for each outcome of
\* its random.choice calls.
CaptionChoices(t, top_classes, main_subject) ==
    IF t = "creative"
    THEN {"A " \o w \o " " \o main_subject \o " that " \o e :
             w \in creative_words, e \in creative_endings}
    ELSE IF t = "professional"
    THEN {"Professional " \o main_subject \o " photography with excellent " \o w :
             w \in professional_terms}
    ELSE IF t = "casual"
    THEN {"Really " \o w \o " " \o main_subject \o "! Love this shot" : w \in casual_words}
    ELSE IF t = "poetic"
    THEN {Title(main_subject) \o " captured " \o w : w \in poetic_phrases}
    ELSE IF t = "social"
    THEN {Title(main_subject) \o " vibes! " \o w \o " #photography #"
              \o RemoveSpaces(main_subject) : w \in emoji_sets}
    ELSE IF t = "descriptive"
    THEN {"Detailed capture showing " \o main_subject \o " with "
              \o Details(top_classes) \o " in clear focus"}
    ELSE {"Beautiful " \o main_subject \o " captured with artistic vision"}

\* The caption the while loop adds.
NewCaption(t, main_subject) ==
    IF t = "creative"
    THEN "An artistic view of " \o main_subject \o " with imaginative composition"
    ELSE IF t = "professional"
    THEN "Expertly captured " \o main_subject \o " with technical excellence"
    ELSE "A captivating " \o main_subject \o " that draws the viewer's attention"

\* list(set(list)): the distinct elements, in any order.
ListOfSet(list) ==
    LET elements == {list[n] : n \in 1..Len(list)}
    IN {order \in [1..Cardinality(elements) -> elements] :
           \A e \in elements : \E n \in 1..Cardinality(elements) : order[n] = e}

\* The tones of the callers and one that no branch names.
Tones ==
    {"creative", "professional", "casual", "poetic", "social", "descriptive", "other"}

\* The classes analyze_image_content returns: those of its fallback, and those
\* of an image.
MultiClassLists == {<<"subject">>, <<"golden_retriever", "tennis_ball", "cat">>}

multi_unchanged == <<decode_vars, scene_vars, thread_vars, context>>

\* The call, up to the for loop.
CallGenerateMultipleCaptions ==
    /\ multi_pc = "idle"
    /\ tone' \in Tones
    /\ num_captions' \in 1..MaxCaptions
    /\ classes' \in MultiClassLists
    /\ captions' = <<>>
    /\ multi_pc' = "for"
    /\ UNCHANGED <<unique_captions, multi_result>>
    /\ UNCHANGED multi_unchanged

\* One pass of for i in range(num_captions).
MultiForStep ==
    /\ multi_pc = "for"
    /\ Len(captions) < num_captions
    /\ \E caption \in CaptionChoices(tone, classes, MainSubject(classes)) :
          captions' = Append(captions, caption)
    /\ UNCHANGED <<tone, num_captions, classes, unique_captions, multi_pc, multi_result>>
    /\ UNCHANGED multi_unchanged

\* unique_captions = list(set(captions)), after the last pass.
MultiUnique ==
    /\ multi_pc = "for"
    /\ Len(captions) = num_captions
    /\ unique_captions' \in ListOfSet(captions)
    /\ multi_pc' = "while"
    /\ UNCHANGED <<tone, num_captions, classes, captions, multi_result>>
    /\ UNCHANGED multi_unchanged

\* The test of the while loop holds: unique_captions.append(new_caption).
MultiWhileAppend ==
    /\ multi_pc = "while"
    /\ Len(unique_captions) < num_captions
    /\ unique_captions' = Append(unique_captions, NewCaption(tone, MainSubject(classes)))
    /\ multi_pc' = "while_set"
    /\ UNCHANGED <<tone, num_captions, classes, captions, multi_result>>
    /\ UNCHANGED multi_unchanged

\* unique_captions = list(set(unique_captions)), and back to the test.
MultiWhileSet ==
    /\ multi_pc = "while_set"
    /\ unique_captions' \in ListOfSet(unique_captions)
    /\ multi_pc' = "while"
    /\ UNCHANGED <<tone, num_captions, classes, captions, multi_result>>
    /\ UNCHANGED multi_unchanged

\* The test of the while loop fails: return unique_captions[:num_captions].
MultiReturn ==
    /\ multi_pc = "while"
    /\ ~(Len(unique_captions) < num_captions)
    /\ multi_result' = SubSeq(unique_captions, 1, Min(Len(unique_captions), num_captions))
    /\ multi_pc' = "done"
    /\ UNCHANGED <<tone, num_captions, classes, captions, unique_captions>>
    /\ UNCHANGED multi_unchanged

NextCaptions ==
    \/ CallGenerateMultipleCaptions
    \/ MultiForStep
    \/ MultiUnique
    \/ MultiWhileAppend
    \/ MultiWhileSet
    \/ MultiReturn

-----------------------------------------------------------------------------
(* Specifications *)

\* The decoder, the scene classifier not in use.
Init == InitDecode /\ InitScene /\ ThreadsIdle /\ CaptionsIdle

Next == NextDecode

Spec == Init /\ [][Next]_vars

\* The scene classifier, the decoder not in use.
DecodeIdle ==
    /\ model = [present |-> FALSE, dists |-> {}, stepfn |-> <<>>]
    /\ tokenizer = [present |-> FALSE, word_index |-> <<>>]
    /\ max_length = 0
    /\ beam_width = 1
    /\ todo = <<>>
    /\ pc = "idle"
    /\ in_text = <<>>
    /\ g_iter = 0
    /\ sequences = <<>>
    /\ all_candidates = <<>>
    /\ b_iter = 0
    /\ b_idx = 0
    /\ calls = [simple |-> 0, beam |-> 0]
    /\ result_simple = <<>>
    /\ result_beam = <<>>
    /\ best_sequence = <<>>
    /\ returned = {}
    /\ raised = "none"

InitSceneSpec == InitScene /\ DecodeIdle /\ ThreadsIdle /\ CaptionsIdle

SpecScene == InitSceneSpec /\ [][NextScene]_vars

\* The threads, on a decoder that is loaded and a generator that is constructed.
InitThreads ==
    /\ model \in {[present |-> TRUE, dists |-> ThreadDists, stepfn |-> f] :
                     f \in ThreadStepFns}
    /\ tokenizer = [present |-> TRUE, word_index |-> WordIndexFull]
    /\ max_length = MaxLen - 1
    /\ beam_width = 1
    /\ todo = <<>>
    /\ pc = "idle"
    /\ in_text = <<>>
    /\ g_iter = 0
    /\ sequences = <<>>
    /\ all_candidates = <<>>
    /\ b_iter = 0
    /\ b_idx = 0
    /\ calls = [simple |-> 0, beam |-> 0]
    /\ result_simple = <<>>
    /\ result_beam = <<>>
    /\ best_sequence = <<>>
    /\ returned = {}
    /\ raised = "none"
    /\ encoder_model = TRUE
    /\ inception_full = TRUE
    /\ scene_pc = "ready"
    /\ method = ""
    /\ labels = <<>>
    /\ confidences = <<>>
    /\ final_scores = <<>>
    /\ outcome = NoOutcome
    /\ ThreadsIdle
    /\ CaptionsIdle

SpecThreads == InitThreads /\ [][NextThreads]_vars

\* _extract_contextual_info alone, on a generator that is constructed.
InitContext ==
    /\ DecodeIdle
    /\ encoder_model = TRUE
    /\ inception_full = TRUE
    /\ scene_pc = "ready"
    /\ method = ""
    /\ labels = <<>>
    /\ confidences = <<>>
    /\ final_scores = <<>>
    /\ outcome = NoOutcome
    /\ ThreadsIdle
    /\ CaptionsIdle

SpecContext == InitContext /\ [][CallExtractContextualInfo]_vars

\* generate_multiple_captions alone, on a generator that is constructed; the
\* interpreter takes the next step of the call as long as there is one.
SpecCaptions == InitContext /\ [][NextCaptions]_vars /\ WF_vars(NextCaptions)

-----------------------------------------------------------------------------
(* Properties of the decoder *)

Loaded == model.present /\ tokenizer.present

\* The candidates the beam search holds.
Held == {sequences[n] : n \in 1..Len(sequences)}
            \cup {all_candidates[n] : n \in 1..Len(all_candidates)}

\* Every distribution predict has answered has the length of the vocabulary.
WellFormedAnswers ==
    \A k \in DOMAIN model.stepfn :
        Len(model.stepfn[k]) = VocabSize(tokenizer.word_index)

\* C1: with beam_width = 1, beam search returns the same word sequence as the
\* greedy search on the same stepping function.
C1_BeamOneEqualsGreedy ==
    (beam_width = 1 /\ returned = {"simple", "beam"} /\ WellFormedAnswers)
        => Words(result_beam) = Words(result_simple)

\* C2: a decode call returns at most max_length words, the greedy search calls
\* predict at most max_length times, and the lineage of every candidate of the
\* beam search holds at most max_length predict calls.
C2_LengthAndCallBudget ==
    /\ "simple" \in returned => Len(Words(result_simple)) <= max_length
    /\ "beam" \in returned => Len(Words(result_beam)) <= max_length
    /\ calls.simple <= max_length
    /\ \A c \in Held : c.steps <= max_length

C2_Witness ==
    /\ returned = {"simple", "beam"}
    /\ max_length >= 3
    /\ Len(Words(result_simple)) = max_length
    /\ calls.simple = max_length
    /\ Len(Words(result_beam)) = max_length - 1
    /\ \E c \in Held : c.steps = max_length - 1

\* C3: when the stepping function always answers one-hot on the end id, both
\* searches return the empty caption, raise nothing and stay within the budget
\* of max_length predict calls.
C3_OneHotEndGivesEmpty ==
    (Loaded /\ model.dists = {OneHotEnd}) =>
        /\ raised = "none"
        /\ pc # "raised"
        /\ "simple" \in returned => result_simple = <<>>
        /\ "beam" \in returned => result_beam = <<>>
        /\ calls.simple <= max_length
        /\ \A c \in Held : c.steps <= max_length

C3_Witness ==
    /\ Loaded /\ model.dists = {OneHotEnd}
    /\ returned = {"simple", "beam"}
    /\ beam_width >= 2 /\ max_length >= 2
    /\ calls.simple = 1 /\ calls.beam >= 2
    /\ result_simple = <<>> /\ result_beam = <<>>

C5_NotReadyRaisesFirst ==
    ~Loaded =>
        /\ calls.simple = 0 /\ calls.beam = 0
        /\ model.stepfn = <<>>
        /\ returned = {}
        /\ pc \in {"idle", "raised"}
        /\ pc = "raised" => (raised = "ValueError" /\ Len(todo) = 2)
        /\ pc = "idle" => raised = "none"

C5_Witness ==
    /\ pc = "raised" /\ raised = "ValueError"
    /\ model.present /\ ~tokenizer.present
    /\ Head(todo) = "beam"

\* C6: a decode call to which predict answered a distribution whose length is
\* not the vocabulary size fails: no call returns a caption after such an answer.
C6_MalformedDistributionRaised ==
    ~WellFormedAnswers => returned = {}

\* C7: every word the greedy search appends is the word of an id of maximum
\* probability, the lowest such id; the search stops at the first end word; and
\* with the vocabulary {startseq: 1, endseq: 2, a: 3, dog: 4}, max_length 5 and
\* a stepping function favouring a, then dog, then the end, it returns a dog.
GreedyWords == Tail(Words(in_text))

LowestMaxId(d, id) ==
    \A j \in 0..(Len(d) - 1) :
        /\ d[j + 1] <= d[id + 1]
        /\ (d[j + 1] = d[id + 1] => id <= j)

C7_GreedyPicksLowestMaxId ==
    (Loaded /\ in_text # <<>>) =>
        /\ \A n \in 1..Len(GreedyWords) :
             /\ GreedyWords[n] \in DOMAIN tokenizer.word_index
             /\ GreedyWords[n] # "endseq"
             /\ LowestMaxId(model.stepfn[n], tokenizer.word_index[GreedyWords[n]])
        /\ ("simple" \in returned /\ Len(GreedyWords) < max_length) =>
             \E id \in 0..(Len(model.stepfn[Len(GreedyWords) + 1]) - 1) :
                /\ LowestMaxId(model.stepfn[Len(GreedyWords) + 1], id)
                /\ WordForId(id, tokenizer.word_index) \in {"endseq", NoWord}
        /\ ("simple" \in returned /\ max_length = 5
              /\ tokenizer.word_index = WordIndexFull
              /\ model.stepfn[1] = FavourA /\ model.stepfn[2] = FavourDog
              /\ model.stepfn[3] \in {FavourEnd, OneHotEnd})
             => Words(result_simple) = <<"a", "dog">>

C7_Witness ==
    /\ "simple" \in returned /\ max_length = 5
    /\ tokenizer.word_index = WordIndexFull
    /\ DOMAIN model.stepfn = {1, 2, 3}
    /\ model.stepfn[1] = FavourA /\ model.stepfn[2] = FavourDog
    /\ model.stepfn[3] = FavourEnd
    /\ result_simple = <<"a", Blank, "dog">>

\* The place of the first id of ids that is the end word's or has no word,
\* Len(ids) + 1 when there is none.
StopAt(ids, wi) ==
    CHOOSE n \in 1..(Len(ids) + 1) :
        /\ n <= Len(ids) => WordForId(ids[n], wi) \in {NoWord, "endseq"}
        /\ \A m \in 1..(n - 1) : WordForId(ids[m], wi) \notin {NoWord, "endseq"}

\* The words of the ids before that place, the start word left out.
KeptWords(ids, wi) ==
    SelectSeq([n \in 1..(StopAt(ids, wi) - 1) |-> WordForId(ids[n], wi)],
              LAMBDA w : w # "startseq")

\* The ids the greedy search chose, one for every predict call.
GreedyIds ==
    [n \in 1..calls.simple |->
        CHOOSE id \in 0..(Len(model.stepfn[n]) - 1) : LowestMaxId(model.stepfn[n], id)]

\* C14: the words a decode call returns hold neither the start nor the end
\* word, and they are the words of the chosen ids before the first id that is
\* the end word's or has no word.
C14_ReturnedWordsAreCut ==
    /\ "simple" \in returned =>
         /\ \A n \in 1..Len(Words(result_simple)) :
              Words(result_simple)[n] \in DOMAIN tokenizer.word_index \ {"startseq", "endseq"}
         /\ Words(result_simple) = KeptWords(GreedyIds, tokenizer.word_index)
    /\ "beam" \in returned =>
         /\ \A n \in 1..Len(Words(result_beam)) :
              Words(result_beam)[n] \in DOMAIN tokenizer.word_index \ {"startseq", "endseq"}
         /\ Words(result_beam) = KeptWords(best_sequence, tokenizer.word_index)

C14_Witness ==
    /\ "beam" \in returned
    /\ tokenizer.word_index = WordIndexGap
    /\ best_sequence = <<1, 4, 3>>
    /\ result_beam = <<>>

\* The caller's calls are over: both returned, or one raised.
RunOver == pc = "raised" \/ (pc = "idle" /\ todo = <<>>)

\* The steps a call in progress has left at most, and those of a call to come.
CallSteps ==
    CASE pc = "simple_loop" -> (max_length - g_iter) + 2
      [] pc = "beam_loop" -> (max_length - b_iter) * (beam_width + 2)
                                + (Len(sequences) - b_idx + 1) + 2
      [] pc \in {"simple_return", "beam_return"} -> 1
      [] OTHER -> 0

WholeCall == (max_length + 1) * (beam_width + 2) + 3

\* The steps the caller's calls have left at most.
StepsLeft ==
    CASE pc = "raised" -> 0
      [] pc = "idle" -> Len(todo) * WholeCall
      [] OTHER -> (Len(todo) - 1) * WholeCall + CallSteps

\* The step that the position of the running call makes possible can be taken;
\* at the end of an iteration of the beam search that is the sort and the cut.
CanStep ==
    /\ (pc = "idle" /\ todo # <<>>) => ENABLED (SimpleEnter \/ BeamEnter)
    /\ pc = "simple_loop" => ENABLED SimpleStep
    /\ pc = "simple_return" => ENABLED SimpleReturn
    /\ pc = "beam_return" => ENABLED BeamReturn
    /\ (pc = "beam_loop" /\ b_idx <= Len(sequences)) => ENABLED (BeamCarry \/ BeamExpand)
    /\ (pc = "beam_loop" /\ b_idx > Len(sequences)) =>
          SortTop(all_candidates, beam_width) # {}

\* C15: every decode call ends: neither loop begins more than max_length
\* iterations, whatever predict answers; a call without model or tokenizer
\* raises in its first step; every step leaves fewer steps to take, so that
\* no call runs for ever; and a call that is not over can take a step.
C15_DecodeTerminates ==
    /\ [](g_iter <= max_length /\ b_iter <= max_length /\ StepsLeft >= 0)
    /\ [][(pc = "idle" /\ ~Loaded) => pc' = "raised"]_vars
    /\ [][StepsLeft' < StepsLeft]_vars
    /\ []CanStep

C15_Witness ==
    /\ RunOver /\ returned = {"simple", "beam"}
    /\ max_length >= 3
    /\ g_iter = max_length /\ b_iter = max_length
    /\ Len(Words(result_simple)) = max_length
    /\ "endseq" \notin {WordForId(best_sequence[n], tokenizer.word_index) :
                          n \in 1..Len(best_sequence)}

\* C17: the ids by which the beam search expands a candidate are those of the
\* highest probability, and of two ids of equal probability of which one is
\* left out, the one expanded is the lower.
C17_BeamTieLowestId ==
    [][ (pc = "beam_loop" /\ calls'.beam = calls.beam + 1) =>
          LET parent == sequences[b_idx]
              d == model'.stepfn[StepKey(PadPost(parent.seq, max_length))]
              chosen == {Last(all_candidates'[n].seq) :
                            n \in (Len(all_candidates) + 1)..Len(all_candidates')}
          IN \A j \in chosen : \A i \in (0..(Len(d) - 1)) \ chosen :
                \/ d[i + 1] < d[j + 1]
                \/ (d[i + 1] = d[j + 1] /\ j < i)
      ]_vars

\* A candidate is complete when it ends with the end token or has reached
\* max_length.
Complete(cand) == Last(cand.seq) = EndToken \/ Len(cand.seq) >= max_length

\* C22: a candidate of the frontier that is complete is not passed to predict:
\* the step of the inner loop on it calls predict not at all and appends it to
\* all_candidates with its sequence and its score as they are.
C22_CompleteIsCarried ==
    [][ (pc = "beam_loop" /\ b_idx <= Len(sequences) /\ Complete(sequences[b_idx])) =>
          /\ calls' = calls
          /\ model' = model
          /\ all_candidates' = Append(all_candidates, sequences[b_idx])
          /\ sequences' = sequences
      ]_vars

\* A candidate that ended before max_length has been carried into the merge
\* of the next iteration while the other candidate of the frontier waits.
C22_Witness ==
    /\ pc = "beam_loop" /\ b_iter >= 1 /\ b_idx = 2 /\ Len(sequences) = 2
    /\ Last(sequences[1].seq) = EndToken /\ Len(sequences[1].seq) < max_length
    /\ all_candidates = <<sequences[1]>>
    /\ calls.beam = 1

\* The number of places at which a sequence holds x.
Occurrences(seq, x) == Cardinality({n \in 1..Len(seq) : seq[n] = x})

\* C23: the frontier after an iteration holds at most beam_width candidates in
\* descending order of score, as many as the merged candidates allow; they are
\* candidates of the merge, and every candidate of the merge that scores
\* higher than the lowest of the frontier is in the frontier.
C23_FrontierIsTopOfMerge ==
    [][ (pc = "beam_loop" /\ b_iter' = b_iter + 1) =>
          /\ Len(sequences') <= beam_width
          /\ Len(sequences') = (IF Len(all_candidates) <= beam_width
                                THEN Len(all_candidates) ELSE beam_width)
          /\ \A n \in 1..(Len(sequences') - 1) :
                sequences'[n].score >= sequences'[n + 1].score
          /\ \A n \in 1..Len(sequences') :
                Occurrences(sequences', sequences'[n])
                    <= Occurrences(all_candidates, sequences'[n])
          /\ \A m \in 1..Len(all_candidates) :
                (\E n \in 1..Len(sequences') :
                    all_candidates[m].score > sequences'[n].score) =>
                        Occurrences(sequences', all_candidates[m])
                            = Occurrences(all_candidates, all_candidates[m])
      ]_vars

\* The last iteration merged four candidates and kept the two of the highest
\* scores, which differ.
C23_Witness ==
    /\ pc = "beam_return" /\ beam_width = 2
    /\ Len(all_candidates) = 4 /\ Len(sequences) = 2
    /\ sequences[1].score > sequences[2].score
    /\ \E m \in 1..Len(all_candidates) : all_candidates[m].score < sequences[2].score

\* C24 as claimed: the beam search begins no iteration on a frontier whose
\* candidates are all complete.
C24_NoIterationOnCompleteFrontier ==
    pc = "beam_loop" => \E n \in 1..Len(sequences) : ~Complete(sequences[n])

\* C25: the sequence the beam search decodes is that of a candidate of the
\* final frontier whose cumulative score no other candidate exceeds, whatever
\* the lengths, and the caption is made of its words.
C25_BestIsHighestRawScore ==
    "beam" \in returned =>
        /\ \E n \in 1..Len(sequences) :
              /\ sequences[n].seq = best_sequence
              /\ \A m \in 1..Len(sequences) : sequences[m].score <= sequences[n].score
        /\ result_beam = Join(CaptionWords(best_sequence, tokenizer.word_index))

\* The sequence decoded is shorter than the other candidate of the frontier
\* and has the higher cumulative score, while the other has the higher score
\* per token.
C25_Witness ==
    /\ "beam" \in returned /\ Len(sequences) = 2
    /\ best_sequence = sequences[1].seq
    /\ Len(sequences[1].seq) < Len(sequences[2].seq)
    /\ sequences[1].score > sequences[2].score
    /\ sequences[2].score * Len(sequences[1].seq) > sequences[1].score * Len(sequences[2].seq)
    /\ sequences[2].score * (Len(sequences[1].seq) - 1)
          > sequences[1].score * (Len(sequences[2].seq) - 1)

-----------------------------------------------------------------------------
(* Properties of the scene classifier *)

Categories == {CategoryName(n) : n \in 1..Len(SCENE_CATEGORIES)}

\* C8: categorize_scene and advanced_scene_categorization never raise: for
\* every list of predictions and every list of confidences, a shorter one
\* included, they return a category and a confidence, and for the empty list
\* of predictions they return (general, 0.5).
C8_ClassifiersNeverFail ==
    (scene_pc = "done"
        /\ method \in {"categorize_scene", "advanced_scene_categorization"}) =>
        /\ outcome.raised = "none"
        /\ outcome.category \in Categories \cup {"general"}
        /\ outcome.confidence \in 1..1000
        /\ labels = <<>> => (outcome.category = "general" /\ outcome.confidence = 500)

C8_Witness ==
    /\ scene_pc = "done" /\ method = "advanced_scene_categorization"
    /\ labels = <<"golden_retriever", "woman">> /\ confidences = <<90>>
    /\ outcome.raised = "none"
    /\ outcome.category = "people" /\ outcome.confidence = 360

\* The number of predictions that hold at least one keyword of category n.
C9_Count(n) ==
    Cardinality({i \in 1..Len(labels) :
        \E k \in 1..Len(SCENE_CATEGORIES[n].keywords) :
            Contains(labels[i], SCENE_CATEGORIES[n].keywords[k])})

\* These numbers for the first n categories.
RECURSIVE C9_Counts(_)
C9_Counts(n) == IF n = 0 THEN <<>> ELSE Append(C9_Counts(n - 1), C9_Count(n))

\* C9: categorize_scene scores a category by the number of predictions that
\* hold at least one of its keywords, a prediction counting once; it returns
\* (general, 0.5) when the best count is 0 and otherwise a category of the
\* best count with the confidence 0.7.
C9_CountsPredictionsOnce ==
    (scene_pc = "done" /\ method = "categorize_scene") =>
        \A counts \in {C9_Counts(Len(SCENE_CATEGORIES))} :
            IF \A n \in DOMAIN counts : counts[n] = 0
            THEN outcome.category = "general" /\ outcome.confidence = 500
            ELSE /\ outcome.confidence = 700
                 /\ \E n \in DOMAIN counts :
                      /\ outcome.category = CategoryName(n)
                      /\ \A m \in DOMAIN counts : counts[m] <= counts[n]

C9_Witness ==
    /\ scene_pc = "done" /\ method = "categorize_scene"
    /\ labels = <<"woman", "dog", "dog">>
    /\ outcome.category = "animal" /\ outcome.confidence = 700

\* str.upper(), of the letters the labels hold
LowerToUpper ==
    ("a" :> "A") @@ ("b" :> "B") @@ ("c" :> "C") @@ ("d" :> "D") @@ ("e" :>
    "E") @@ ("f" :> "F") @@ ("g" :> "G") @@ ("h" :> "H") @@ ("i" :> "I") @@
    ("j" :> "J") @@ ("k" :> "K") @@ ("l" :> "L") @@ ("m" :> "M") @@ ("n" :>
    "N") @@ ("o" :> "O") @@ ("p" :> "P") @@ ("q" :> "Q") @@ ("r" :> "R") @@
    ("s" :> "S") @@ ("t" :> "T") @@ ("u" :> "U") @@ ("v" :> "V") @@ ("w" :>
    "W") @@ ("x" :> "X") @@ ("y" :> "Y") @@ ("z" :> "Z")

RECURSIVE Upper(_)
Upper(str) ==
    IF Len(str) = 0 THEN ""
    ELSE LET c == SubSeq(str, 1, 1)
         IN (IF c \in DOMAIN LowerToUpper THEN LowerToUpper[c] ELSE c)
                \o Upper(SubSeq(str, 2, Len(str)))

\* The lists that differ from the predictions in the letter case of one
\* label: that label in capitals.
CaseVariants(predictions) ==
    {[predictions EXCEPT ![i] = Upper(predictions[i])] : i \in 1..Len(predictions)}

\* C10 as claimed: categorize_scene matches without regard to letter case: a
\* list that differs from the predictions in the letter case of a label gets
\* the same counts and the same (category, confidence).
C10_CategorizeIgnoresCase ==
    (scene_pc = "done" /\ method = "categorize_scene") =>
        \A counts \in {CountScores(labels, Len(SCENE_CATEGORIES))} :
            \A q \in CaseVariants(labels) :
                /\ CountScores(q, Len(SCENE_CATEGORIES)) = counts
                /\ WithTopClasses(categorize_scene(q), <<>>) = outcome

\* C10: categorize_scene matches with regard to letter case, against keywords
\* in lower case; analyze_image_content puts the labels in lower case before
\* it calls categorize_scene, so a list of decoded labels that differs in the
\* letter case of a label gets the same counts and the same result from
\* analyze_image_content.
C10_AnalyzeIgnoresCase ==
    (scene_pc = "done" /\ method = "analyze_image_content" /\ inception_full) =>
        \A counts \in {CountScores(outcome.top_classes, Len(SCENE_CATEGORIES))} :
            \A q \in CaseVariants(labels) :
                \A other \in {analyze_image_content(TRUE, TRUE, q)} :
                    /\ other.top_classes = outcome.top_classes
                    /\ CountScores(other.top_classes, Len(SCENE_CATEGORIES)) = counts
                    /\ other.category = outcome.category
                    /\ other.confidence = outcome.confidence

C10_Witness ==
    /\ scene_pc = "done" /\ method = "analyze_image_content" /\ inception_full
    /\ labels = <<"DOG", "Petri_dish", "golden_retriever">>
    /\ outcome.category = "animal" /\ outcome.confidence = 700
    /\ outcome.top_classes = <<"dog", "petri_dish", "golden_retriever">>

AnalyzeDone ==
    /\ scene_pc = "done"
    /\ method \in {"analyze_image_content", "analyze_image_content: predict raises"}

\* C29: the constructor ends with an object whatever loading did, and
\* analyze_image_content ends with a value and no exception: exactly
\* (general, 0.5, [subject]) when the classifier is not loaded or predict
\* raises, and a confidence of exactly 0.5 or 0.7 in every other case.
C29_AnalyzeNeverRaises ==
    /\ scene_pc # "new" => (inception_full => encoder_model)
    /\ AnalyzeDone =>
          /\ outcome.raised = "none"
          /\ (~inception_full \/ method = "analyze_image_content: predict raises") =>
                /\ outcome.category = "general" /\ outcome.confidence = 500
                /\ outcome.top_classes = <<"subject">>
          /\ outcome.confidence \in {500, 700}

\* The classifier is loaded and predict raises: the fallback is returned.
C29_Witness ==
    /\ scene_pc = "done" /\ method = "analyze_image_content: predict raises"
    /\ inception_full /\ labels = <<"dog">>
    /\ outcome = [raised |-> "none", category |-> "general", confidence |-> 500,
                  top_classes |-> <<"subject">>]

AdvancedDone == scene_pc = "done" /\ method = "advanced_scene_categorization"

\* The place of a category in the table.
CategoryIndex(name) == CHOOSE n \in 1..Len(SCENE_CATEGORIES) : CategoryName(n) = name

\* C11 as claimed: for the predictions golden_retriever (0.9) and dog (0.05)
\* the score of animal is 1.0*0.9*2 + 0.9*0.05*2 = 1.89 and the call returns
\* (animal, 1.0).
C11_ScenarioScores189 ==
    (AdvancedDone /\ labels = <<"golden_retriever", "dog">> /\ confidences = <<90, 5>>) =>
        /\ final_scores[CategoryIndex("animal")] = 1890
        /\ outcome.category = "animal" /\ outcome.confidence = 1000

\* C11: golden_retriever holds no keyword, so for the predictions
\* golden_retriever (0.9) and dog (0.05) only dog, at rank 1, adds to animal:
\* the score is 0.9*0.05*2 = 0.09, every other score is 0, and the call
\* returns (general, 0.5).
C11_ScenarioScores009 ==
    (AdvancedDone /\ labels = <<"golden_retriever", "dog">> /\ confidences = <<90, 5>>) =>
        /\ final_scores[CategoryIndex("animal")] = 90
        /\ \A n \in DOMAIN final_scores : n # CategoryIndex("animal") => final_scores[n] = 0
        /\ outcome.raised = "none"
        /\ outcome.category = "general" /\ outcome.confidence = 500

C11_Witness ==
    /\ AdvancedDone
    /\ labels = <<"golden_retriever", "dog">> /\ confidences = <<90, 5>>
    /\ outcome.category = "general"

\* C12: the score of a category does not decrease when the confidence of one
\* prediction that holds a keyword of the category increases, at any rank,
\* everything else as it was.
C12_MonotonicInConfidence ==
    AdvancedDone =>
        \A hits \in {KeywordHits(labels, Len(SCENE_CATEGORIES))} :
            \A i \in 1..Min(Len(labels), Len(confidences)) :
                \A c \in {c \in ConfLevels : c > confidences[i]} :
                    \A n \in 1..Len(SCENE_CATEGORIES) :
                        hits[n][i] > 0 =>
                            WeightedScore(hits[n], [confidences EXCEPT ![i] = c],
                                          Len(labels)).value >= final_scores[n]

\* The scores of the call on the first ten predictions alone.
FirstTenScores ==
    LET scored == WeightedScores(KeywordHits(TopTen(labels), Len(SCENE_CATEGORIES)),
                                 confidences, Len(SCENE_CATEGORIES))
    IN ScoreValues(scored, Len(scored))

\* C18: the position weight at rank i is max(0, 1.0 - 0.1*i): the predictions
\* at rank 10 or later add nothing, and no score of a category is negative.
C18_PositionWeightClamped ==
    AdvancedDone =>
        /\ \A n \in DOMAIN final_scores : final_scores[n] >= 0
        /\ final_scores = FirstTenScores

\* The highest of the scores.
MaxScore == CHOOSE x \in {final_scores[n] : n \in DOMAIN final_scores} :
                \A n \in DOMAIN final_scores : final_scores[n] <= x

\* C13: advanced_scene_categorization returns a category of the highest score
\* with min(score, 1.0) when that score is above 0.3, and (general, 0.5)
\* otherwise, a highest score of exactly 0.3 included.
C13_ThresholdIsStrict ==
    AdvancedDone =>
        IF MaxScore > 300
        THEN /\ outcome.category \in Categories
             /\ final_scores[CategoryIndex(outcome.category)] = MaxScore
             /\ outcome.confidence = IF MaxScore > 1000 THEN 1000 ELSE MaxScore
        ELSE outcome.category = "general" /\ outcome.confidence = 500

C13_Witness ==
    /\ AdvancedDone
    /\ labels = <<"dog">> /\ confidences = <<15>>
    /\ MaxScore = 300
    /\ outcome.category = "general" /\ outcome.confidence = 500

\* For a label, the number of keywords of each category that it holds.
RECURSIVE C19_Held(_, _)
C19_Held(label, n) ==
    IF n = 0 THEN <<>>
    ELSE Append(C19_Held(label, n - 1),
                Cardinality({k \in 1..Len(SCENE_CATEGORIES[n].keywords) :
                                Contains(label, SCENE_CATEGORIES[n].keywords[k])}))

\* These numbers for the labels of a set.
RECURSIVE C19_HeldBy(_)
C19_HeldBy(ls) ==
    IF ls = {} THEN <<>>
    ELSE LET l == CHOOSE l \in ls : TRUE
         IN (l :> C19_Held(l, Len(SCENE_CATEGORIES))) @@ C19_HeldBy(ls \ {l})

C19_KeywordsHeld == C19_HeldBy(Labels)

\* What the predictions up to the i-th add to category n: each of them
\* position_weight * confidence * 2 for every keyword of n that its label holds.
RECURSIVE C19_Sum(_, _)
C19_Sum(n, i) ==
    IF i = 0 THEN 0
    ELSE C19_Sum(n, i - 1)
           + C19_KeywordsHeld[labels[i]][n]
               * ((10 - (i - 1)) * (IF i <= Len(confidences) THEN confidences[i] ELSE 10) * 2)

\* C19: a prediction at rank i with confidence c_i adds position_weight * c_i
\* * 2 to a category once for every keyword of the category that its label
\* holds, without a cap, and nothing to a category of which it holds no keyword.
C19_AddsPerKeyword ==
    AdvancedDone =>
        \A n \in 1..Len(SCENE_CATEGORIES) : final_scores[n] = C19_Sum(n, Len(labels))

C19_Witness ==
    /\ AdvancedDone
    /\ labels = <<"woman", "carpet">> /\ confidences = <<90, 15>>
    /\ final_scores = <<3600, 270, 0, 270, 0, 0, 0, 0>>
    /\ outcome.category = "people" /\ outcome.confidence = 1000

\* The categories of the highest score, by their place in the table.
C20_Tied == LET max_score == MaxScore
            IN {n \in DOMAIN final_scores : final_scores[n] = max_score}

\* C20: when categorize_scene or advanced_scene_categorization returns a
\* category, it is the category of the highest score that comes first in the
\* order of the table (people, animal, food, vehicle, nature, architecture,
\* indoor, outdoor), so the category returned is a function of the scores.
C20_FirstOfTableOrderWins ==
    (/\ scene_pc = "done"
     /\ method \in {"categorize_scene", "advanced_scene_categorization"}
     /\ outcome.raised = "none"
     /\ outcome.category # "general") =>
        /\ <<CategoryName(1), CategoryName(2), CategoryName(3), CategoryName(4),
              CategoryName(5), CategoryName(6), CategoryName(7), CategoryName(8)>>
             = <<"people", "animal", "food", "vehicle",
                 "nature", "architecture", "indoor", "outdoor">>
        /\ \A best \in {CategoryIndex(outcome.category)} :
             \A n \in DOMAIN final_scores :
                /\ final_scores[n] <= final_scores[best]
                /\ final_scores[n] = final_scores[best] => best <= n

\* 'carpet' holds 'pet' of animal and 'car' of vehicle: both categories have the
\* highest score and animal is returned.
C20_Witness ==
    /\ AdvancedDone /\ labels = <<"carpet">> /\ confidences = <<90>>
    /\ C20_Tied = {CategoryIndex("animal"), CategoryIndex("vehicle")}
    /\ outcome.category = "animal" /\ outcome.confidence = 1000


-----------------------------------------------------------------------------
(* Properties of the threads *)

\* The final frontiers of a beam search that runs alone from the frontier seqs
\* with iter iterations of the outer loop done.
RECURSIVE C16_Candidates(_, _, _)
C16_Candidates(seqs, n, bw) ==
    IF n = 0 THEN {<<>>}
    ELSE LET cand == seqs[n]
             d == model.stepfn[StepKey(PadPost(cand.seq, max_length))]
             added == IF Finished(cand) THEN {<<cand>>}
                      ELSE {Expansions(cand, d, top) : top \in ArgSortTop(d, bw)}
         IN {before \o a : before \in C16_Candidates(seqs, n - 1, bw), a \in added}

RECURSIVE C16_Frontiers(_, _, _)
C16_Frontiers(seqs, iter, bw) ==
    IF BeamLoopDone(iter) THEN {seqs}
    ELSE UNION {IF AllEnded(kept) THEN {kept} ELSE C16_Frontiers(kept, iter + 1, bw) :
                   kept \in UNION {SortTop(all, bw) :
                                      all \in C16_Candidates(seqs, Len(seqs), bw)}}

\* What the call of a thread returns when it runs alone.
C16_Alone(th) ==
    IF th.call = "categorize_scene" THEN {categorize_scene(th.predictions)}
    ELSE IF th.call = "advanced_scene_categorization"
    THEN {advanced_scene_categorization(th.predictions, th.confidence_scores)}
    ELSE {BeamOutcome(front[1].seq, tokenizer.word_index) :
             front \in C16_Frontiers(<<Candidate(<<StartToken>>, 0, 0)>>, 0, th.beam_width)}

\* C16: under every interleaving of the steps of concurrent categorize_scene,
\* advanced_scene_categorization and beam search calls, a call that returns
\* returns what it returns when it runs alone, and no step changes the
\* vocabulary, the model or max_length (the keyword table is the definition
\* scene_keywords, which no step writes).
C16_CallsDoNotInterfere ==
    [][/\ \A t \in Threads :
            (threads[t].pc # "done" /\ threads'[t].pc = "done") =>
                threads'[t].value \in C16_Alone(threads'[t])
       /\ tokenizer' = tokenizer
       /\ model' = model
       /\ max_length' = max_length]_vars

\* Thread 1 has returned (people, 0.7) for 'woman', 'carpet' while the beam
\* search of thread 2 is in its second iteration.
C16_Witness ==
    /\ threads[1].call = "categorize_scene"
    /\ threads[1].predictions = <<"woman", "carpet">>
    /\ threads[1].pc = "done"
    /\ threads[1].value = [raised |-> "none", category |-> "people", confidence |-> 700]
    /\ threads[2].call = "generate_caption_beam_search"
    /\ threads[2].pc = "beam_loop"
    /\ frames[2].b_iter = 1
    /\ frames[1].n = Len(SCENE_CATEGORIES) + 1

-----------------------------------------------------------------------------
(* Properties of _extract_contextual_info *)

ContextDone == scene_pc = "done" /\ method = "_extract_contextual_info"

\* The confidence of the prediction at place n of the list (rank n - 1).
C21_Confidence(n) == IF n <= Len(confidences) THEN confidences[n] ELSE 10

\* The places among the first eight whose prediction holds a keyword of
\* keywords, in rank order.
C21_Places(keywords) ==
    SelectSeq([n \in 1..Min(Len(labels), 8) |-> n],
              LAMBDA n : \E k \in 1..Len(keywords) : Contains(labels[n], keywords[k]))

\* The labels, with blanks for underscores, of the places of a list.
C21_LabelsAt(places) == [m \in 1..Len(places) |-> ReplaceUnderscore(labels[places[m]])]

\* C21: a prediction of confidence <= 0.1 goes to no list; of the others, one
\* that holds an object keyword goes to primary_objects when its confidence
\* is > 0.3 and to secondary_objects otherwise, and apart from that it goes to
\* environment, activity_indicators and mood_indicators for each of these
\* keyword lists of which it holds a keyword.
C21_ContextPartition ==
    ContextDone =>
        /\ context.primary_objects =
              C21_LabelsAt(SelectSeq(C21_Places(object_keywords),
                                     LAMBDA n : C21_Confidence(n) > 30))
        /\ context.secondary_objects =
              C21_LabelsAt(SelectSeq(C21_Places(object_keywords),
                                     LAMBDA n : C21_Confidence(n) > 10
                                                  /\ C21_Confidence(n) <= 30))
        /\ context.environment =
              C21_LabelsAt(SelectSeq(C21_Places(environment_keywords),
                                     LAMBDA n : C21_Confidence(n) > 10))
        /\ context.activity_indicators =
              C21_LabelsAt(SelectSeq(C21_Places(activity_keywords),
                                     LAMBDA n : C21_Confidence(n) > 10))
        /\ context.mood_indicators =
              C21_LabelsAt(SelectSeq(C21_Places(mood_keywords),
                                     LAMBDA n : C21_Confidence(n) > 10))

\* 'dog_running' (0.9) is a primary object and an activity, 'car' (0.3) a
\* secondary object, and 'sunny_beach' (0.1) is in no list.
C21_Witness ==
    /\ ContextDone
    /\ labels = <<"dog_running", "car", "sunny_beach">>
    /\ confidences = <<90, 30, 10>>
    /\ context = [primary_objects |-> <<"dog running">>,
                  secondary_objects |-> <<"car">>,
                  environment |-> <<>>,
                  activity_indicators |-> <<"dog running">>,
                  mood_indicators |-> <<>>]

\* The places whose prediction may be in a list: among the first eight, with
\* an entry in the confidences that is > 0.1.
C30_Eligible ==
    {n \in 1..Len(labels) : n <= 8 /\ n <= Len(confidences) /\ confidences[n] > 10}

\* The labels at the places of a set, in rank order.
RECURSIVE C30_Pick(_, _)
C30_Pick(places, n) ==
    IF n = 0 THEN <<>>
    ELSE IF n \in places
    THEN Append(C30_Pick(places, n - 1), ReplaceUnderscore(labels[n]))
    ELSE C30_Pick(places, n - 1)

C30_Lists ==
    {context.primary_objects, context.secondary_objects, context.environment,
     context.activity_indicators, context.mood_indicators}

\* C30: every list of the context holds, in rank order, the labels of some of
\* the predictions that are among the first eight and have an entry > 0.1 in
\* the confidences; a prediction of rank 8 or more, or one without an entry,
\* is in no list.
C30_OnlyConfidentFirstEight ==
    ContextDone =>
        \A eligible \in {C30_Eligible} :
            \A list \in C30_Lists :
                \E places \in SUBSET eligible : list = C30_Pick(places, Len(labels))

\* Of 'dog_running' at rank 7 and 'cat' at rank 8, both of confidence 0.9, the
\* first alone is in the lists.
C30_Witness ==
    /\ ContextDone
    /\ Len(labels) = 9 /\ labels[8] = "dog_running" /\ labels[9] = "cat"
    /\ confidences = [i \in 1..9 |-> 90]
    /\ context.primary_objects = <<"dog running">>
    /\ context.activity_indicators = <<"dog running">>
    /\ context.secondary_objects = <<>>

-----------------------------------------------------------------------------
(* Properties of generate_multiple_captions *)

\* C26: generate_multiple_captions comes to its return for every tone and
\* every num_captions >= 1, whatever random.choice gives, and returns
\* num_captions captions no two of which are equal.
C26_ReturnsDistinctCaptions ==
    <>(/\ multi_pc = "done"
       /\ Len(multi_result) = num_captions
       /\ \A m, n \in 1..Len(multi_result) : multi_result[m] = multi_result[n] => m = n)

=============================================================================
